---- MODULE Spec2Model ----
(***************************************************************************)
(* The dial of src/bin/1.rs: Dial::turn, Rotation::try_from and the        *)
(* driver loop of main.                                                    *)
(*                                                                         *)
(* Number representation.  TLC's integers are the signed 32-bit integers,  *)
(* and it stops with an error on any overflow.  An i32 of the program is   *)
(* therefore an integer of the model, and a u32 that may exceed 2^31 - 1   *)
(* (Rotation.steps, the two totals of main) is the record                  *)
(* [hi |-> h, lo |-> l] of its two 16-bit halves, of value h * 2^16 + l.   *)
(* The count returned by turn never exceeds 21474837 and is an integer.    *)
(***************************************************************************)
EXTENDS Integers, Sequences, FiniteSets, TLC

VARIABLES
    build,                \* "debug": overflow checks on; "release": wrapping
    file,                 \* the lines read_lines yields, in order
    i,                    \* main: index of the next line to process
    position,             \* Dial.position
    zero_stops,           \* main: zero_stops (u32)
    zero_crossings,       \* main: zero_crossings (u32)
    rotation,             \* the Rotation of the last call of turn
    starting_position,    \* the position before the last call of turn
    turn_zero_crossings,  \* the value the last call of turn returned
    out,                  \* standard output: the lines printed so far
    err,                  \* the panic message, or NoPanic
    pc                    \* where the program is

vars == <<build, file, i, position, zero_stops, zero_crossings, rotation,
          starting_position, turn_zero_crossings, out, err, pc>>

----------------------------------------------------------------------------
(* Machine integers *)

Half == 65536

I32_MAX == 2147483647

I32_MIN == (-I32_MAX) - 1

DialSize == 100

\* A u32 from its halves.
U32From(h, l) == [hi |-> h, lo |-> l]

\* The u32 of an integer in 0 .. 2^31 - 1.
U32(n) == U32From(n \div Half, n % Half)

U32_MAX == U32From(Half - 1, Half - 1)

\* u32 + u32 with the overflow flag of the hardware: the wrapped sum and
\* whether the true sum exceeds 2^32 - 1.
AddU32(a, b) ==
    LET lo == a.lo + b.lo
        hi == a.hi + b.hi + (lo \div Half)
    IN  [value |-> U32From(hi % Half, lo % Half), overflow |-> hi >= Half]

\* u32::cast_signed: the same 32 bits read as two's complement.
cast_signed(s) ==
    IF s.hi < Half \div 2
        THEN s.hi * Half + s.lo
        ELSE (s.hi - Half) * Half + s.lo

\* i32 / and % of Rust truncate toward zero; \div and % of TLA+ floor.
TruncDiv(a, b) ==
    IF a < 0 /\ a % b # 0 THEN (a \div b) + 1 ELSE a \div b

TruncRem(a, b) ==
    IF a < 0 /\ a % b # 0 THEN (a % b) - b ELSE a % b

\* i32::unsigned_abs, on the quotients turn applies it to.
unsigned_abs(q) == IF q < 0 THEN -q ELSE q

----------------------------------------------------------------------------
(* Direction, Rotation *)

Left == "Left"

Right == "Right"

Direction == {Left, Right}

\* `rotation.direction as i32`: the discriminants of the enum.
DirectionAsI32(d) == IF d = Left THEN -1 ELSE 1

Rotation(d, s) == [direction |-> d, steps |-> s]

NoRotation == [direction |-> "none", steps |-> U32(0)]

----------------------------------------------------------------------------
(* Dial::turn *)

\* Line 28: steps = cast_signed(rotation.steps) * direction.  The product
\* overflows exactly for i32::MIN * -1, where the wrapped result is i32::MIN.
SignedSteps(r) ==
    LET c == cast_signed(r.steps)
        u == DirectionAsI32(r.direction)
    IN  IF c = I32_MIN /\ u = -1
            THEN [value |-> I32_MIN, overflow |-> TRUE]
            ELSE [value |-> c * u, overflow |-> FALSE]

\* Line 30: one crossing for each full revolution.
FullRevolutions(steps) == unsigned_abs(TruncDiv(steps, DialSize))

\* Line 31.
RemSteps(steps) == TruncRem(steps, DialSize)

\* Mutant of CorrectNegative: the position is left below zero.
CorrectNegativeNoWrap(p, np, zc) ==
    IF np < 0
        THEN [new_position |-> np,
              zero_crossings |-> IF p # 0 THEN zc + 1 ELSE zc]
        ELSE [new_position |-> np, zero_crossings |-> zc]

\* Mutant of CorrectNegative: the wraparound is counted from position 0 too.
CorrectNegativeAlways(p, np, zc) ==
    IF np < 0
        THEN [new_position |-> np + DialSize, zero_crossings |-> zc + 1]
        ELSE [new_position |-> np, zero_crossings |-> zc]

\* Lines 36-41: the correction of a negative provisional position.
CorrectNegative(p, np, zc) ==
    IF np < 0
        THEN [new_position |-> np + DialSize,
              zero_crossings |-> IF p # 0 THEN zc + 1 ELSE zc]
        ELSE [new_position |-> np, zero_crossings |-> zc]

\* Mutant of CorrectPositive: the position is left above 99.
CorrectPositiveNoWrap(np, zc) ==
    IF np > DialSize - 1
        THEN [new_position |-> np,
              zero_crossings |-> IF np - DialSize # 0 THEN zc + 1 ELSE zc]
        ELSE [new_position |-> np, zero_crossings |-> zc]

\* Lines 42-48: the correction of a provisional position above 99.
CorrectPositive(np, zc) ==
    IF np > DialSize - 1
        THEN [new_position |-> np - DialSize,
              zero_crossings |-> IF np - DialSize # 0 THEN zc + 1 ELSE zc]
        ELSE [new_position |-> np, zero_crossings |-> zc]

\* Mutant of LandOnZero: resting on zero counts whatever the remainder.
LandOnZeroAlways(np, rem_steps, zc) ==
    IF np = 0 THEN zc + 1 ELSE zc

\* Line 53: landing on zero by a partial revolution.
LandOnZero(np, rem_steps, zc) ==
    IF np = 0 /\ rem_steps # 0 THEN zc + 1 ELSE zc

\* Lines 55-56: u8::try_from(new_position) fails outside 0 .. 255.
FitsU8(np) == np \in 0..255

\* Dial::turn from position p under build b: the position it leaves, the
\* value it returns and the panic that ends it, if any.  A panic leaves the
\* position as it was: the assignment of line 55 is the last statement.
Turn(p, r, b) ==
    LET s == SignedSteps(r) IN
    IF s.overflow /\ b = "debug"
        THEN [position |-> p, zero_crossings |-> 0, panic |-> "overflow"]
        ELSE
            LET rem_steps == RemSteps(s.value)
                neg == CorrectNegative(p, p + rem_steps,
                                       FullRevolutions(s.value))
                pos == CorrectPositive(neg.new_position, neg.zero_crossings)
                zc  == LandOnZero(pos.new_position, rem_steps,
                                  pos.zero_crossings)
            IN  IF FitsU8(pos.new_position)
                    THEN [position |-> pos.new_position,
                          zero_crossings |-> zc, panic |-> "none"]
                    ELSE [position |-> p, zero_crossings |-> zc,
                          panic |-> "range"]

\* Dial::default.
DefaultPosition == 50

----------------------------------------------------------------------------
(* Rotation::try_from.  A line is a sequence of one-character strings. *)

Ok(v) == [ok |-> TRUE, value |-> v, error |-> "none"]

Err(e) == [ok |-> FALSE, value |-> NoRotation, error |-> e]

\* Lines 68-73: RotationParseError, a variant and the cause it carries.
IncorrectStartOfLineCharacter ==
    [name |-> "IncorrectStartOfLineCharacter", cause |-> "none"]

ParseIntError(e) == [name |-> "ParseIntError", cause |-> e]

DigitChars == <<"0", "1", "2", "3", "4", "5", "6", "7", "8", "9">>

IsDigit(c) == \E k \in 1..Len(DigitChars) : DigitChars[k] = c

DigitValue(c) == (CHOOSE k \in 1..Len(DigitChars) : DigitChars[k] = c) - 1

\* acc * 10 + d in u32, with checked_mul and checked_add.
MulAdd10(acc, d) ==
    LET lo == acc.lo * 10 + d
        hi == acc.hi * 10 + (lo \div Half)
    IN  [value |-> U32From(hi % Half, lo % Half), overflow |-> hi >= Half]

\* The digit loop of u32::from_str, left to right.
RECURSIVE ParseDigits(_, _)
ParseDigits(digits, acc) ==
    IF digits = <<>> THEN [ok |-> TRUE, value |-> acc, error |-> "none"]
    ELSE IF ~IsDigit(Head(digits))
        THEN [ok |-> FALSE, value |-> acc, error |-> "InvalidDigit"]
    ELSE LET n == MulAdd10(acc, DigitValue(Head(digits))) IN
         IF n.overflow
             THEN [ok |-> FALSE, value |-> acc, error |-> "PosOverflow"]
             ELSE ParseDigits(Tail(digits), n.value)

\* Line 83, `value[1..].parse()` at type u32: u32::from_str.  An empty string
\* is Empty, a lone sign is InvalidDigit, one leading "+" is skipped, "-" is
\* no digit of an unsigned type.
ParseU32(src) ==
    IF src = <<>> THEN [ok |-> FALSE, value |-> U32(0), error |-> "Empty"]
    ELSE IF src = <<"+">> \/ src = <<"-">>
        THEN [ok |-> FALSE, value |-> U32(0), error |-> "InvalidDigit"]
    ELSE ParseDigits(IF Head(src) = "+" THEN Tail(src) ELSE src, U32(0))

\* Mutant of ParseDirection: the two letters are exchanged.
ParseDirectionSwapped(value) ==
    IF value # <<>> /\ Head(value) = "L" THEN Ok(Right)
    ELSE IF value # <<>> /\ Head(value) = "R" THEN Ok(Left)
    ELSE Err(IncorrectStartOfLineCharacter)

\* Lines 78-82.
ParseDirection(value) ==
    IF value # <<>> /\ Head(value) = "L" THEN Ok(Left)
    ELSE IF value # <<>> /\ Head(value) = "R" THEN Ok(Right)
    ELSE Err(IncorrectStartOfLineCharacter)

\* Mutant of try_from: the integer is parsed before the letter is looked at.
try_fromIntegerFirst(value) ==
    LET steps == ParseU32(IF value = <<>> THEN <<>> ELSE Tail(value))
        direction == ParseDirection(value)
    IN  IF ~steps.ok THEN Err(ParseIntError(steps.error))
        ELSE IF ~direction.ok THEN Err(direction.error)
        ELSE Ok(Rotation(direction.value, steps.value))

\* Lines 77-85.
try_from(value) ==
    LET direction == ParseDirection(value) IN
    IF ~direction.ok THEN Err(direction.error)
    ELSE LET steps == ParseU32(Tail(value)) IN
         IF ~steps.ok THEN Err(ParseIntError(steps.error))
         ELSE Ok(Rotation(direction.value, steps.value))

\* Lines 11-18 and 204: Display, then to_lowercase.
DirectionLower(d) == IF d = Left THEN "left" ELSE "right"

----------------------------------------------------------------------------
(* main *)

NoPanic == [kind |-> "none"]

\* Lines 200-208: the line printed for one processed rotation.
StepLine(k, from, r, to, zc) ==
    [kind |-> "step", step |-> k, from |-> from,
     direction |-> DirectionLower(r.direction), steps |-> r.steps,
     to |-> to, crossings |-> zc]

\* Lines 211-212: the two lines printed after the loop.
TotalLines(stops, crossings) ==
    << [kind |-> "zero_stops", count |-> stops],
       [kind |-> "zero_crossings", count |-> crossings] >>

\* Mutant of ParsePanic: the line that fails to parse is skipped.
ParsePanicSkip(e) ==
    /\ i' = i + 1
    /\ UNCHANGED <<build, file, position, zero_stops, zero_crossings,
                   rotation, starting_position, turn_zero_crossings, out,
                   err, pc>>

\* Line 190: the parse of line i failed.
ParsePanic(e) ==
    /\ pc' = "panicked"
    /\ err' = [kind |-> "parse", line |-> i, error |-> e]
    /\ UNCHANGED <<build, file, i, position, zero_stops, zero_crossings,
                   rotation, starting_position, turn_zero_crossings, out>>

\* Lines 192-193 when turn panics: nothing after the call runs.
TurnPanic(r, t) ==
    /\ pc' = "panicked"
    /\ err' = [kind |-> t.panic, line |-> i, error |-> "turn"]
    /\ rotation' = r
    /\ starting_position' = position
    /\ UNCHANGED <<build, file, i, position, zero_stops, zero_crossings,
                   turn_zero_crossings, out>>

\* Lines 196-198.
CountStop(stops, p) ==
    IF p = 0 THEN AddU32(stops, U32(1))
             ELSE [value |-> stops, overflow |-> FALSE]

\* Lines 192-208 when turn returns t: the totals and the printed line.  An
\* addition that overflows panics in a debug build, after turn has stored
\* the new position, and wraps in a release build.
Accumulate(r, t) ==
    LET crossings == AddU32(zero_crossings, U32(t.zero_crossings))
        stops     == CountStop(zero_stops, t.position)
    IN  /\ rotation' = r
        /\ starting_position' = position
        /\ position' = t.position
        /\ turn_zero_crossings' = t.zero_crossings
        /\ UNCHANGED <<build, file>>
        /\ IF build = "debug" /\ crossings.overflow
              THEN /\ pc' = "panicked"
                   /\ err' = [kind |-> "overflow", line |-> i,
                              error |-> "zero_crossings"]
                   /\ UNCHANGED <<i, zero_stops, zero_crossings, out>>
           ELSE IF build = "debug" /\ stops.overflow
              THEN /\ pc' = "panicked"
                   /\ err' = [kind |-> "overflow", line |-> i,
                              error |-> "zero_stops"]
                   /\ zero_crossings' = crossings.value
                   /\ UNCHANGED <<i, zero_stops, out>>
           ELSE /\ zero_crossings' = crossings.value
                /\ zero_stops' = stops.value
                /\ out' = Append(out, StepLine(i, position, r, t.position,
                                               t.zero_crossings))
                /\ i' = i + 1
                /\ UNCHANGED <<pc, err>>

\* Lines 184-209: one iteration of the loop over the lines.
LoopBody ==
    /\ pc = "loop"
    /\ i < Len(file)
    /\ LET parsed == try_from(file[i + 1]) IN
       IF ~parsed.ok THEN ParsePanic(parsed.error)
       ELSE LET t == Turn(position, parsed.value, build) IN
            IF t.panic # "none" THEN TurnPanic(parsed.value, t)
            ELSE Accumulate(parsed.value, t)

\* Lines 211-212: the loop is over, the totals are printed.
Report ==
    /\ pc = "loop"
    /\ i = Len(file)
    /\ out' = out \o TotalLines(zero_stops, zero_crossings)
    /\ pc' = "done"
    /\ UNCHANGED <<build, file, i, position, zero_stops, zero_crossings,
                   rotation, starting_position, turn_zero_crossings, err>>

Builds == {"debug", "release"}

\* Lines 179-182, for the build and the file the run is given.  The run
\* starts where the file is open: a missing argument (line 176), a file that
\* cannot be opened (line 185) and a line that cannot be read (line 188) end
\* the run in the reader, before any line reaches try_from.
InitMain(b, f) ==
    /\ build = b
    /\ file = f
    /\ i = 0
    /\ position = DefaultPosition
    /\ zero_stops = U32(0)
    /\ zero_crossings = U32(0)
    /\ rotation = NoRotation
    /\ starting_position = DefaultPosition
    /\ turn_zero_crossings = 0
    /\ out = <<>>
    /\ err = NoPanic
    /\ pc = "loop"

----------------------------------------------------------------------------
(* Inputs *)

\* The decimal digits of n >= 0.
RECURSIVE Decimal(_)
Decimal(n) ==
    IF n < 10 THEN <<DigitChars[n + 1]>>
    ELSE Append(Decimal(n \div 10), DigitChars[(n % 10) + 1])

\* The line of direction letter c and magnitude n.
Line(c, n) == <<c>> \o Decimal(n)

\* All sequences over S of length at most n.
SeqsUpTo(S, n) == UNION {[1..k -> S] : k \in 0..n}

MaxLines == 3

DriverSteps == {1, 50, 100}

GoodLines == {Line(c, n) : c \in {"L", "R"}, n \in DriverSteps}

\* L2147483648 and R4294967295: magnitudes above i32::MAX.
BigLines ==
    { <<"L", "2", "1", "4", "7", "4", "8", "3", "6", "4", "8">>,
      <<"R", "4", "2", "9", "4", "9", "6", "7", "2", "9", "5">> }

\* The empty line, X90, LYY and l5.
BadLines == { <<>>, <<"X", "9", "0">>, <<"L", "Y", "Y">>, <<"l", "5">> }

DriverLines == GoodLines \cup BigLines \cup BadLines

\* The scenario of the specification's section 8.
ScenarioFile ==
    << Line("L", 50), Line("L", 100), Line("R", 100), Line("R", 200),
       Line("L", 200), Line("L", 1), Line("R", 1), Line("R", 101) >>

\* Lines 140-156: the first dial of test_zero_crossings.
TestFile ==
    << Line("L", 50), Line("L", 100), Line("R", 100), Line("R", 200),
       Line("L", 200), Line("L", 1), Line("R", 1), Line("L", 1),
       Line("R", 101), Line("R", 1), Line("L", 1), Line("R", 1),
       Line("L", 101) >>

\* Lines 159-169: the given example of test_zero_crossings.
ExampleFile ==
    << Line("L", 68), Line("L", 30), Line("R", 48), Line("L", 5),
       Line("R", 60), Line("L", 55), Line("L", 1), Line("L", 99),
       Line("R", 14), Line("L", 82) >>

LongLines == 201

\* A file of LongLines lines R2147483647.
LongFile == [k \in 1..LongLines |-> Line("R", I32_MAX)]

\* 200 lines R2147483647, whose turns return 2^32 - 2 crossings in all,
\* and then R200, whose turn returns 2.
WrapFile ==
    [k \in 1..201 |-> IF k <= 200 THEN Line("R", I32_MAX) ELSE Line("R", 200)]

Files ==
    SeqsUpTo(DriverLines, MaxLines)
        \cup {ScenarioFile, TestFile, ExampleFile, LongFile, WrapFile}

MaxSteps == 210

\* The magnitudes at the edges of i32 and u32: the largest multiple of 100
\* below 2^31, 2^31 - 1, 2^31, 2^31 + 1, the smallest multiple of 100 above
\* 2^31, the largest multiple of 100 of a u32, and 2^32 - 1.
EdgeMagnitudes ==
    { U32(I32_MAX - (I32_MAX % DialSize)), U32(I32_MAX),
      U32From(Half \div 2, 0), U32From(Half \div 2, 1),
      U32From(Half \div 2, 52), U32From(Half - 1, 65440), U32_MAX }

Magnitudes == {U32(n) : n \in 0..MaxSteps} \cup EdgeMagnitudes

----------------------------------------------------------------------------
(* Specifications *)

\* main on a file.
Init == \E b \in Builds, f \in Files : InitMain(b, f)

Next == LoopBody \/ Report

Spec == Init /\ [][Next]_vars

\* The dial of a test, in any position, before its first call of turn.
InitDial(first) ==
    /\ build \in Builds
    /\ file = <<>>
    /\ i = 0
    /\ position \in 0..(DialSize - 1)
    /\ zero_stops = U32(0)
    /\ zero_crossings = U32(0)
    /\ rotation = NoRotation
    /\ starting_position = position
    /\ turn_zero_crossings = 0
    /\ out = <<>>
    /\ err = NoPanic
    /\ pc = first

\* One call dial.turn(&r), as the tests make it: lines 26-59 on the dial's
\* state, the returned value noted in out, then on to `after`.
Call(r, after) ==
    LET t == Turn(position, r, build) IN
    /\ rotation' = r
    /\ starting_position' = position
    /\ position' = t.position
    /\ turn_zero_crossings' = t.zero_crossings
    /\ IF t.panic = "none"
          THEN /\ pc' = after
               /\ out' = Append(out, StepLine(Len(out), position, r,
                                              t.position, t.zero_crossings))
               /\ UNCHANGED err
          ELSE /\ pc' = "panicked"
               /\ err' = [kind |-> t.panic, line |-> Len(out),
                          error |-> "turn"]
               /\ UNCHANGED out
    /\ UNCHANGED <<build, file, i, zero_stops, zero_crossings>>

\* Dial::turn alone: one call, from any position, with any magnitude.
InitTurn == InitDial("call")

TurnCall ==
    /\ pc = "call"
    /\ \E d \in Direction, s \in Magnitudes : Call(Rotation(d, s), "returned")

NextTurn == TurnCall

SpecTurn == InitTurn /\ [][NextTurn]_vars

\* Two calls in a row on one dial, from any position.
PairRevs == 2

PairNear == 1

PairSteps ==
    {n \in {k * DialSize + j : k \in 0..PairRevs, j \in (-PairNear)..PairNear} :
        n >= 0} \cup {DialSize \div 2}

PairMagnitudes == {U32(n) : n \in PairSteps} \cup EdgeMagnitudes

InitPair == InitDial("first")

FirstCall ==
    /\ pc = "first"
    /\ \E d \in Direction, s \in PairMagnitudes :
           Call(Rotation(d, s), "second")

SecondCall ==
    /\ pc = "second"
    /\ \E d \in Direction, s \in PairMagnitudes :
           Call(Rotation(d, s), "returned")

NextPair == FirstCall \/ SecondCall

SpecPair == InitPair /\ [][NextPair]_vars

\* Rotation::try_from alone, on one line, as parse_succeeds and parse_fails
\* call it.
MaxLineLen == 4

ParseAlphabet == {"L", "R", "l", "r", "X", "+", "-", "0", "1", "9"}

\* L50, R1220, X90 and LYY of the tests; magnitudes at the edges of u32 and
\* i32, with a sign, with leading zeros, and beyond 32 bits.
ParseEdgeLines ==
    { Line("L", 50), Line("R", 1220), <<"X", "9", "0">>, <<"L", "Y", "Y">>,
      Line("R", I32_MAX),
      <<"L", "2", "1", "4", "7", "4", "8", "3", "6", "4", "8">>,
      <<"L", "4", "2", "9", "4", "9", "6", "7", "2", "9", "5">>,
      <<"R", "4", "2", "9", "4", "9", "6", "7", "2", "9", "6">>,
      <<"R", "4", "2", "9", "4", "9", "6", "7", "3", "0", "0">>,
      <<"L", "5", "0", "0", "0", "0", "0", "0", "0", "0", "0">>,
      <<"R", "0", "0", "4", "2", "9", "4", "9", "6", "7", "2", "9", "5">>,
      <<"L", "+", "4", "2", "9", "4", "9", "6", "7", "2", "9", "5">>,
      <<"x", "4", "2", "9", "4", "9", "6", "7", "2", "9", "6">>,
      <<"R", "1", "2", " ">>, <<" ", "L", "5">> }

ParseLines == SeqsUpTo(ParseAlphabet, MaxLineLen) \cup ParseEdgeLines

InitParse ==
    /\ build \in Builds
    /\ file \in {<<l>> : l \in ParseLines}
    /\ i = 0
    /\ position = DefaultPosition
    /\ zero_stops = U32(0)
    /\ zero_crossings = U32(0)
    /\ rotation = NoRotation
    /\ starting_position = DefaultPosition
    /\ turn_zero_crossings = 0
    /\ out = <<>>
    /\ err = NoPanic
    /\ pc = "parse"

\* One call Rotation::try_from(line): lines 75-86, the result kept in
\* rotation (Ok) or in err (Err).
TryFromCall ==
    /\ pc = "parse"
    /\ LET parsed == try_from(file[1]) IN
       IF parsed.ok
           THEN /\ rotation' = parsed.value
                /\ pc' = "parsed"
                /\ UNCHANGED err
           ELSE /\ err' = [kind |-> "parse", line |-> 0, error |-> parsed.error]
                /\ pc' = "failed"
                /\ UNCHANGED rotation
    /\ UNCHANGED <<build, file, i, position, zero_stops, zero_crossings,
                   starting_position, turn_zero_crossings, out>>

NextParse == TryFromCall

SpecParse == InitParse /\ [][NextParse]_vars

----------------------------------------------------------------------------
(* Arithmetic of the properties: the mathematical values the code's machine *)
(* arithmetic is compared with.                                             *)

\* s < 2^31: the magnitude is an integer of the model.
Fits31(s) == s.hi < Half \div 2

ToInt(s) == s.hi * Half + s.lo

\* s mod 100 and floor(s / 100) of a u32, from 2^16 = 655 * 100 + 36.
Mod100(s) == ((s.hi % DialSize) * (Half % DialSize) + s.lo) % DialSize

Div100(s) ==
    s.hi * (Half \div DialSize) + ((s.hi * (Half % DialSize) + s.lo) \div DialSize)

\* One click of the dial in direction d, wrapping 99 <-> 0.
Click(p, d) ==
    IF d = Left THEN (IF p = 0 THEN DialSize - 1 ELSE p - 1)
                ELSE (IF p = DialSize - 1 THEN 0 ELSE p + 1)

\* The walk of n clicks from p: the position it ends on and the number of
\* its clicks after which the pointer is on 0.  Every click is made singly
\* (the case n = 1); a walk of n > 1 clicks is its first half followed by its
\* second half, which keeps the depth of the evaluation logarithmic in n.
\* The halves are bound by quantifiers, so that each is evaluated once.
OneClick(p, d) ==
    [position |-> Click(p, d), zeros |-> IF Click(p, d) = 0 THEN 1 ELSE 0]

Join(a, b) == [position |-> b.position, zeros |-> a.zeros + b.zeros]

RECURSIVE Walk(_, _, _)
Walk(p, d, n) ==
    IF n = 0 THEN [position |-> p, zeros |-> 0]
    ELSE IF n = 1 THEN OneClick(p, d)
    ELSE CHOOSE w \in UNION {{Join(a, b) :
                                 b \in {Walk(a.position, d, n - (n \div 2))}} :
                                 a \in {Walk(p, d, n \div 2)}} : TRUE

AfterClicks(p, d, n) == Walk(p, d, n).position

CountClicks(p, d, n) == Walk(p, d, n).zeros

\* The same count for a magnitude too large to click through: DialSize
\* clicks bring the pointer back to p past exactly one 0 (FullCircle), so
\* the whole revolutions count one each and the rest is clicked through.
FullCircle(p, d) ==
    /\ AfterClicks(p, d, DialSize) = p
    /\ CountClicks(p, d, DialSize) = 1

ZeroClicks(p, d, n) ==
    IF n <= MaxSteps THEN CountClicks(p, d, n)
    ELSE (n \div DialSize) + CountClicks(p, d, n % DialSize)

\* (p + n * unit(d)) mod 100 as the residue in 0 .. 99, for 0 <= n < 2^31;
\* p - 100 + n is the same residue and stays within the integers.
Residue(p, d, n) ==
    IF d = Left THEN (p - n) % DialSize ELSE ((p - DialSize) + n) % DialSize

\* A signed value as sign and magnitude, and the value s * unit(d).
SignMagnitude(x) ==
    [negative |-> x < 0,
     magnitude |-> IF x = I32_MIN THEN U32From(Half \div 2, 0)
                   ELSE U32(unsigned_abs(x))]

Displacement(d, s) ==
    [negative |-> d = Left /\ s # U32(0), magnitude |-> s]

Returned == pc = "returned"

----------------------------------------------------------------------------
(* Claims on Dial::turn, under SpecTurn *)

\* C1: after every call of turn the position is in 0 .. 99, and the range
\* assertion of turn (the expect on the u8 conversion) never fires.
C1_PositionInRange ==
    /\ position \in 0..(DialSize - 1)
    /\ err.kind # "range"

\* L51 from the default position wraps below zero and ends on 99.
C1_Witness ==
    /\ Returned
    /\ starting_position = DefaultPosition
    /\ rotation = Rotation(Left, U32(51))
    /\ position = 99

\* C2: for a magnitude s <= 2^31 - 1, turn returns the number of the s
\* single clicks in its direction after which the pointer is on 0.
C2_ClickByClick ==
    (Returned /\ Fits31(rotation.steps)) =>
        /\ ToInt(rotation.steps) > MaxSteps =>
               FullCircle(starting_position, rotation.direction)
        /\ turn_zero_crossings =
               ZeroClicks(starting_position, rotation.direction,
                          ToInt(rotation.steps))

\* L150 from 50 passes 0 at click 50 and stops on it at click 150.
C2_Witness ==
    /\ Returned
    /\ starting_position = DefaultPosition
    /\ rotation = Rotation(Left, U32(150))
    /\ turn_zero_crossings = 2

\* C3: for a magnitude s <= 2^31 - 1, the position after turn is
\* (p + s * unit(d)) mod 100, the residue in 0 .. 99.
C3_PositionIsResidue ==
    (Returned /\ Fits31(rotation.steps)) =>
        position = Residue(starting_position, rotation.direction,
                           ToInt(rotation.steps))

\* R2147483647 from 99 ends on (99 + 47) mod 100.
C3_Witness ==
    /\ Returned
    /\ starting_position = 99
    /\ rotation = Rotation(Right, U32(I32_MAX))
    /\ position = 46

\* C5: a turn by an exact multiple of 100 leaves the position as it was and
\* returns s / 100.
C5_ExactMultiple ==
    (Returned /\ Mod100(rotation.steps) = 0) =>
        /\ position = starting_position
        /\ turn_zero_crossings = Div100(rotation.steps)

\* C7: a turn of magnitude 0 leaves the position as it was and returns 0.
C7_ZeroSteps ==
    (Returned /\ rotation.steps = U32(0)) =>
        /\ position = starting_position
        /\ turn_zero_crossings = 0

\* L0 on a dial at 0.
C7_Witness ==
    /\ Returned
    /\ rotation = Rotation(Left, U32(0))
    /\ starting_position = 0
    /\ position = 0

\* C8: the i32 displacement turn computes is s * unit(d): neither the cast
\* of the magnitude nor the product with the direction wraps or overflows.
C8_DisplacementExact ==
    (pc \in {"returned", "panicked"}) =>
        /\ ~SignedSteps(rotation).overflow
        /\ SignMagnitude(SignedSteps(rotation).value) =
               Displacement(rotation.direction, rotation.steps)

----------------------------------------------------------------------------
(* Claims on two calls of turn, under SpecPair *)

\* C6: Left by x and then Right by x leaves the dial where it was.
C6_LeftThenRight ==
    (/\ Returned
     /\ Len(out) = 2
     /\ out[1].direction = DirectionLower(Left)
     /\ out[2].direction = DirectionLower(Right)
     /\ out[1].steps = out[2].steps) =>
        out[2].to = out[1].from

----------------------------------------------------------------------------
(* Claims on main, under Spec *)

\* The position and the count of each step of the scenario, as the
\* specification lists them and as the dial produces them.
ScenarioClaimed ==
    << <<0, 1>>, <<0, 1>>, <<0, 1>>, <<0, 2>>, <<0, 2>>, <<99, 0>>,
       <<0, 1>>, <<0, 2>> >>

ScenarioActual ==
    << <<0, 1>>, <<0, 1>>, <<0, 1>>, <<0, 2>>, <<0, 2>>, <<99, 0>>,
       <<0, 1>>, <<1, 1>> >>

\* The run on the scenario prints, step by step, the results `expected`,
\* and goes through all eight steps.
ScenarioYields(expected) ==
    file = ScenarioFile =>
        /\ pc # "panicked"
        /\ pc = "done" => Len(out) = Len(ScenarioFile) + 2
        /\ \A k \in 1..Len(out) :
               out[k].kind = "step" =>
                   <<out[k].to, out[k].crossings>> = expected[k]

WideAdd(x, y) ==
    [hi |-> x.hi + y.hi + ((x.lo + y.lo) \div Half),
     lo |-> (x.lo + y.lo) % Half]

RECURSIVE SumOfCrossings(_, _)
SumOfCrossings(a, b) ==
    IF a > b THEN U32(0)
    ELSE IF a = b
        THEN (IF out[a].kind = "step" THEN U32(out[a].crossings) ELSE U32(0))
    ELSE CHOOSE w \in UNION {{WideAdd(x, y) :
                                 y \in {SumOfCrossings(((a + b) \div 2) + 1, b)}} :
                                 x \in {SumOfCrossings(a, (a + b) \div 2)}} : TRUE

\* The number of processed rotations that ended on 0.
StopsPrinted ==
    Cardinality({k \in 1..Len(out) : out[k].kind = "step" /\ out[k].to = 0})

\* C9: after every processed line, and when the totals are reported,
\* zero_stops is the number of processed rotations that ended on 0 and
\* zero_crossings is the sum of the values turn returned.
C9_Totals ==
    (pc \in {"loop", "done"}) =>
        /\ zero_stops = U32(StopsPrinted)
        /\ zero_crossings = SumOfCrossings(1, Len(out))
        /\ pc = "done" =>
               SubSeq(out, Len(out) - 1, Len(out)) =
                   TotalLines(U32(StopsPrinted), SumOfCrossings(1, Len(out)))

\* The position before line k of the file (k from 1), from the printed lines.
PositionBefore(k) == IF k = 1 THEN DefaultPosition ELSE out[k - 1].to

\* Printed line k is line k of the file, parsed and applied to the dial as
\* the lines before it left it.
AppliedInOrder(k) ==
    LET r == try_from(file[k]).value
        t == Turn(PositionBefore(k), r, build)
    IN  out[k] = StepLine(k - 1, PositionBefore(k), r, t.position,
                          t.zero_crossings)

\* The state of a run that a parse failure has ended: the failure is that
\* of line i, the lines before it and no others have been applied, in order,
\* the dial is where they left it and no totals are printed.  In any state,
\* the index has not moved past a line that does not parse.
ParseFailureState ==
    /\ \A k \in 1..i : try_from(file[k]).ok
    /\ err.kind = "parse" =>
           /\ pc = "panicked"
           /\ err.line = i
           /\ i < Len(file)
           /\ ~try_from(file[i + 1]).ok
           /\ Len(out) = i
           /\ \A k \in 1..i : AppliedInOrder(k)
           /\ position = PositionBefore(i + 1)

\* The step that fails to parse line i changes neither the dial nor the
\* totals nor the output, and a run that has panicked takes no further step.
ParseFailureStep ==
    /\ (err.kind # "parse" /\ err'.kind = "parse") =>
           /\ position' = position
           /\ zero_stops' = zero_stops
           /\ zero_crossings' = zero_crossings
           /\ out' = out
           /\ i' = i
    /\ pc = "panicked" => UNCHANGED vars

\* C10: if line i fails to parse, the run ends there: every line before i
\* has been applied in order, no line at or after i is ever applied, line i
\* changes neither the position nor the totals, and the totals are never
\* reported.
C10_ParseFailureIsFatal == []ParseFailureState /\ [][ParseFailureStep]_vars

\* L1, L1 applied, then the third line fails to parse.
C10_Witness ==
    /\ err.kind = "parse"
    /\ err.line = 2
    /\ position = DefaultPosition - 2
    /\ Len(out) = 2

----------------------------------------------------------------------------
(* Claims on Rotation::try_from, under SpecParse *)

\* The line given to try_from, and whether try_from has returned.
TheLine == file[1]

Parsed == pc \in {"parsed", "failed"}

StartsWithLetter(l) == l # <<>> /\ Head(l) \in {"L", "R"}

AllDigits(d) == d # <<>> /\ \A k \in 1..Len(d) : IsDigit(d[k])

\* A digit string without its leading zeros.
RECURSIVE StripZeros(_)
StripZeros(d) ==
    IF Len(d) > 1 /\ Head(d) = "0" THEN StripZeros(Tail(d)) ELSE d

\* The digits of 2^32 - 1, and whether the number a digit string writes is
\* at most 2^32 - 1, read off the digits.
MaxU32Digits == <<"4", "2", "9", "4", "9", "6", "7", "2", "9", "5">>

FitsU32(d) ==
    LET c == StripZeros(d) IN
    \/ Len(c) < Len(MaxU32Digits)
    \/ /\ Len(c) = Len(MaxU32Digits)
       /\ \A k \in 1..Len(c) :
              (\A j \in 1..(k - 1) : c[j] = MaxU32Digits[j]) =>
                  DigitValue(c[k]) <= DigitValue(MaxU32Digits[k])

\* The decimal digits of a u32, by long division of its halves by 10.
RECURSIVE DecimalU32(_)
DecimalU32(s) ==
    IF s.hi = 0 /\ s.lo < 10 THEN <<DigitChars[s.lo + 1]>>
    ELSE LET low == (s.hi % 10) * Half + s.lo IN
         Append(DecimalU32(U32From(s.hi \div 10, low \div 10)),
                DigitChars[(low % 10) + 1])

\* A remainder that writes a non-negative integer: digits, or + and digits.
IsNonNegativeInteger(d) ==
    \/ AllDigits(d)
    \/ d # <<>> /\ Head(d) = "+" /\ AllDigits(Tail(d))

\* C11: on L or R followed by a decimal unsigned integer that fits 32 bits,
\* try_from succeeds with Left for L, Right for R, and that integer as steps.
C11_WellFormedLineParses ==
    (/\ Parsed
     /\ StartsWithLetter(TheLine)
     /\ AllDigits(Tail(TheLine))
     /\ FitsU32(Tail(TheLine))) =>
        /\ pc = "parsed"
        /\ rotation.direction = IF Head(TheLine) = "L" THEN Left ELSE Right
        /\ DecimalU32(rotation.steps) = StripZeros(Tail(TheLine))

\* L4294967295 parses to Left with 2^32 - 1 steps.
C11_Witness ==
    /\ pc = "parsed"
    /\ TheLine = <<"L", "4", "2", "9", "4", "9", "6", "7", "2", "9", "5">>
    /\ rotation = Rotation(Left, U32_MAX)

\* C12: a line that does not start with L or R fails with
\* IncorrectStartOfLineCharacter whatever follows; a line that starts with L
\* or R and whose remainder is not a non-negative integer fails with the
\* integer-parse error.
C12_ParseErrors ==
    Parsed =>
        /\ ~StartsWithLetter(TheLine) =>
               /\ pc = "failed"
               /\ err.error = IncorrectStartOfLineCharacter
        /\ (StartsWithLetter(TheLine)
                /\ ~IsNonNegativeInteger(Tail(TheLine))) =>
               /\ pc = "failed"
               /\ err.error.name = "ParseIntError"

\* l-- fails on its letter although its remainder is no integer either.
C12_Witness ==
    /\ pc = "failed"
    /\ TheLine = <<"l", "-", "-">>
    /\ err.error = IncorrectStartOfLineCharacter

----------------------------------------------------------------------------
(* Claims on the increments of Dial::turn, under SpecTurn *)

\* C13: a Left turn from position 0 by a magnitude s that is no multiple of
\* 100 returns floor(s / 100), the wraparound not being counted, and ends on
\* 100 - (s mod 100).
C13_LeftFromZero ==
    (/\ Returned
     /\ rotation.direction = Left
     /\ starting_position = 0
     /\ Mod100(rotation.steps) # 0) =>
        /\ turn_zero_crossings = Div100(rotation.steps)
        /\ position = DialSize - Mod100(rotation.steps)

\* C14: a turn by a magnitude s that is no multiple of 100 and that ends on
\* position 0 returns floor(s / 100) + 1, in either direction.
C14_LandingCountedOnce ==
    (/\ Returned
     /\ Mod100(rotation.steps) # 0
     /\ position = 0) =>
        turn_zero_crossings = Div100(rotation.steps) + 1

\* C16: turn returns floor(s / 100) or floor(s / 100) + 1: at most one of
\* its three increments fires in a call.
C16_AtMostOneIncrement ==
    Returned =>
        /\ turn_zero_crossings
               \in {Div100(rotation.steps), Div100(rotation.steps) + 1}
        /\ turn_zero_crossings
               <= FullRevolutions(SignedSteps(rotation).value) + 1

----------------------------------------------------------------------------
(* Claims on two calls of turn, under SpecPair (continued) *)

\* The single turn from where the first of the two turns started, in their
\* direction, by the sum of their magnitudes.
SingleTurn ==
    Turn(out[1].from,
         Rotation(rotation.direction,
                  AddU32(out[1].steps, out[2].steps).value),
         build)

\* C17: turning by (d, a) and then by (d, b) ends where a single turn by
\* (d, a + b) ends, and the two counts add up to the count of that turn.
C17_Additive ==
    (/\ Returned
     /\ Len(out) = 2
     /\ out[1].direction = out[2].direction
     /\ ~AddU32(out[1].steps, out[2].steps).overflow) =>
        /\ SingleTurn.panic = "none"
        /\ SingleTurn.position = out[2].to
        /\ SingleTurn.zero_crossings = out[1].crossings + out[2].crossings

----------------------------------------------------------------------------
(* Claims on main, under Spec (continued) *)

\* The displacement s * unit(d) of line k of the file, modulo 100.
LineOffset(k) ==
    LET r == try_from(file[k]).value IN
    (DirectionAsI32(r.direction) * Mod100(r.steps)) % DialSize

\* For lines a..b of the file, the running sums of their displacements
\* modulo 100: element k is the sum over lines a..a+k-1.
RECURSIVE Offsets(_, _)
Offsets(a, b) ==
    IF a > b THEN <<>>
    ELSE IF a = b THEN <<LineOffset(a)>>
    ELSE CHOOSE w \in UNION {{x \o [k \in 1..Len(y) |->
                                       (x[Len(x)] + y[k]) % DialSize] :
                                 y \in {Offsets(((a + b) \div 2) + 1, b)}} :
                                 x \in {Offsets(a, (a + b) \div 2)}} : TRUE

\* (50 + the sum of s * unit(d) over the first k lines) mod 100, given the
\* running sums w.
PositionAfter(w, k) ==
    IF k = 0 THEN DefaultPosition ELSE (DefaultPosition + w[k]) % DialSize

\* C15: the rotations are applied in input order, each from the position
\* the one before left: after k lines the position is (50 + sum of
\* s * unit(d)) mod 100, and that is the prior position printed for the
\* next line.
C15_InInputOrder ==
    (pc \in {"loop", "done"}) =>
        \A w \in {Offsets(1, i)} :
            /\ position = PositionAfter(w, i)
            /\ \A k \in 1..i :
                   /\ out[k].step = k - 1
                   /\ out[k].steps = try_from(file[k]).value.steps
                   /\ out[k].direction =
                          DirectionLower(try_from(file[k]).value.direction)
                   /\ out[k].from = PositionAfter(w, k - 1)

LeqU32(a, b) == a.hi < b.hi \/ (a.hi = b.hi /\ a.lo <= b.lo)

\* C18: a turn of magnitude at least 1 that leaves the dial on 0 returns at
\* least 1; hence, when every processed line has magnitude at least 1,
\* zero_stops never exceeds zero_crossings.
C18_StopsWithinCrossings ==
    (pc \in {"loop", "done"}) =>
        /\ \A k \in 1..i :
               (out[k].steps # U32(0) /\ out[k].to = 0) =>
                   out[k].crossings >= 1
        /\ (\A k \in 1..i : out[k].steps # U32(0)) =>
               LeqU32(zero_stops, zero_crossings)

====
